---- MODULE Spec2Model ----
(***************************************************************************)
(* A model of the vim-geeknote navigation tree (plugin/explorer.py): the   *)
(* node registry, the notebook / note / tag nodes, the Explorer object,    *)
(* the text of the navigation buffer and the remote note store that the    *)
(* Explorer reads from and writes to.                                      *)
(*                                                                         *)
(* Text is modelled as sequences of tokens.  A token is one character,     *)
(* except that a guid and a node marker are one token each (a guid holds   *)
(* no blank, bracket or parenthesis) and that the blanks a format string   *)
(* writes in one go (indentation, padding) are one token, a string of that *)
(* many blanks.  Lines are rendered and parsed the way the code's format   *)
(* strings and regular expressions do it.                                  *)
(***************************************************************************)
EXTENDS Integers, Sequences, FiniteSets, TLC

\* -------------------------------------------------------------- bounds --
\* Under Spec: the calls of refresh() after the constructor's, of
\* addSearchResults(), of addNote() and of activateNode() and the user's
\* edits, all together, and those of each kind
MaxOps == 3
MaxEach == 2
\* Under SpecStale: the calls of refresh() after the constructor's, of
\* addSearchResults() and of activateNode(), and the user's edits
MaxStaleRefresh == 1
MaxStaleSearch == 1
MaxStaleActivate == 1
MaxStaleEdits == 1
\* Under SpecNotebooks: the calls of refresh() after the constructor's, and
\* of activateNode()
MaxConfigRefresh == 1
MaxConfigActivate == 1

\* ----------------------------------------------------- program constants --
\* width of the left column of a notebook or tag line ('{:<50} N[{}]')
NotebookPad == 50
\* width of the left column of a note line ('{:<48} n[{}]')
NotePad == 48
\* blanks per indentation level of a note line (' ' * (self.indent * 4))
IndentWidth == 4
\* bytes of a node marker once encoded as utf8
MarkerBytes == 3

ExplorerCharOpened == "U+25BD"
ExplorerCharClosed == "U+25B6"

\* --------------------------------------------------------------- text ---
Digits == <<"0", "1", "2", "3", "4", "5", "6", "7", "8", "9">>

IsDigit(c) == \E i \in 1..10 : Digits[i] = c

\* the runs of 1 to 50 blanks
BlankRuns ==
    <<" ",
     "  ",
     "   ",
     "    ",
     "     ",
     "      ",
     "       ",
     "        ",
     "         ",
     "          ",
     "           ",
     "            ",
     "             ",
     "              ",
     "               ",
     "                ",
     "                 ",
     "                  ",
     "                   ",
     "                    ",
     "                     ",
     "                      ",
     "                       ",
     "                        ",
     "                         ",
     "                          ",
     "                           ",
     "                            ",
     "                             ",
     "                              ",
     "                               ",
     "                                ",
     "                                 ",
     "                                  ",
     "                                   ",
     "                                    ",
     "                                     ",
     "                                      ",
     "                                       ",
     "                                        ",
     "                                         ",
     "                                          ",
     "                                           ",
     "                                            ",
     "                                             ",
     "                                              ",
     "                                               ",
     "                                                ",
     "                                                 ",
     "                                                  ">>

BlankSet == {BlankRuns[i] : i \in 1..50}

IsSpace(c) == c \in BlankSet

\* the number of characters of a token, and of a text
Width(c) == IF IsSpace(c) THEN CHOOSE i \in 1..50 : BlankRuns[i] = c ELSE 1

RECURSIVE CharLen(_)
CharLen(s) == IF s = <<>> THEN 0 ELSE Width(Head(s)) + CharLen(Tail(s))

IsMarker(c) == c \in {ExplorerCharOpened, ExplorerCharClosed}

\* str(n) of a natural number, as tokens
RECURSIVE Str(_)
Str(n) == IF n < 10 THEN <<Digits[n + 1]>>
          ELSE Str(n \div 10) \o <<Digits[(n % 10) + 1]>>

\* ' ' * n
Spaces(n) == IF n = 0 THEN <<>> ELSE <<BlankRuns[n]>>

\* len() of an encoded line: a marker takes MarkerBytes bytes
ByteLen(s) ==
    CharLen(s) + (MarkerBytes - 1) * Cardinality({i \in 1..Len(s) : IsMarker(s[i])})

\* '{:<w}'.format(s) where the width of s is measured as n
PadTo(s, n, w) == IF n >= w THEN s ELSE s \o Spaces(w - n)

\* str.strip()
Min(S) == CHOOSE x \in S : \A y \in S : x <= y

Max(S) == CHOOSE x \in S : \A y \in S : y <= x

NonSpaces(s) == {i \in 1..Len(s) : ~IsSpace(s[i])}

LStrip(s) == IF NonSpaces(s) = {} THEN <<>>
             ELSE SubSeq(s, Min(NonSpaces(s)), Len(s))

RStrip(s) == IF NonSpaces(s) = {} THEN <<>>
             ELSE SubSeq(s, 1, Max(NonSpaces(s)))

Strip(s) == RStrip(LStrip(s))

\* str.lower() on the letters of the model
Lower(s) == [i \in 1..Len(s) |-> IF s[i] = "B" THEN "b" ELSE s[i]]

\* the order of Python byte strings
Rank(c) == CASE IsSpace(c) -> 1
             [] c = "(" -> 2
             [] c = ")" -> 3
             [] IsDigit(c) -> 4 + (CHOOSE i \in 1..10 : Digits[i] = c)
             [] c = "B" -> 20
             [] c = "[" -> 30
             [] c = "]" -> 31
             [] c = "a" -> 41
             [] c = "b" -> 42
             [] c = "c" -> 43
             [] c = "n" -> 44
             [] c = "t" -> 45
             [] c = "u" -> 46
             [] c = "v" -> 47
             [] c = "w" -> 48
             [] OTHER -> 60

RECURSIVE StrLess(_, _)
StrLess(s, t) == IF t = <<>> THEN FALSE
                 ELSE IF s = <<>> THEN TRUE
                 ELSE IF Rank(Head(s)) # Rank(Head(t))
                      THEN Rank(Head(s)) < Rank(Head(t))
                 ELSE StrLess(Tail(s), Tail(t))

\* does s hold pat at position i
HasAt(s, i, pat) == /\ i >= 1
                    /\ i + Len(pat) - 1 <= Len(s)
                    /\ \A k \in 1..Len(pat) : s[i + k - 1] = pat[k]

\* number of leading tokens of s that are blanks, and that are not
LeadingSpaces(s) == IF NonSpaces(s) = {} THEN Len(s) ELSE Min(NonSpaces(s)) - 1

LeadingNonSpaces(s) ==
    LET blanks == {i \in 1..Len(s) : IsSpace(s[i])}
    IN  IF blanks = {} THEN Len(s) ELSE Min(blanks) - 1

\* positions j where  <tag>\[.*\].*$  matches the rest of the line
LastClose(line) == Max({0} \cup {k \in 1..Len(line) : line[k] = "]"})

KeyStarts(line, tag) ==
    LET last == LastClose(line)
    IN  {j \in 1..(Len(line) - 2) :
            line[j] = tag /\ line[j + 1] = "[" /\ last >= j + 2}

\* positions j where  \(\d+\)(?:\s+)?N\[.*\].*$  matches the rest of the line
CountStarts(line) ==
    {j \in 1..Len(line) :
        /\ line[j] = "("
        /\ \E e \in (j + 2)..Len(line) :
              /\ line[e] = ")"
              /\ \A d \in (j + 1)..(e - 1) : IsDigit(line[d])
              /\ LET rest == SubSeq(line, e + 1, Len(line))
                     n    == e + 1 + LeadingSpaces(rest)
                 IN  /\ n + 2 <= Len(line)
                     /\ line[n] = "N" /\ line[n + 1] = "["
                     /\ \E k \in (n + 2)..Len(line) : line[k] = "]"}

\* Explorer.getNodeKey: group 1 of  ^.+\[(.+)\]$ , or None
NoKey == <<>>

getNodeKey(nodeText) ==
    LET n == Len(nodeText)
        opens == {i \in 2..(n - 2) : nodeText[i] = "["}
    IN  IF n >= 4 /\ nodeText[n] = "]" /\ opens # {}
        THEN SubSeq(nodeText, Max(opens) + 1, n - 1)
        ELSE NoKey

\* NoteNode.adapt's pattern  ^\s+(.*)n\[.*\].*$ : does it match, and group 1
NoteLineMatches(line) ==
    LET k == LeadingSpaces(line)
    IN  k >= 1 /\ \E j \in KeyStarts(line, "n") : j > k

NoteLineTitle(line) ==
    LET k == LeadingSpaces(line)
        j == Max({i \in KeyStarts(line, "n") : i > k})
    IN  SubSeq(line, k + 1, j - 1)

\* NotebookNode.adapt's patterns  ^\S+(?:\s+)?(.*)<end> : the positions where
\* <end> can start, the lengths the marker part  ^\S+  can take, and group 1
NameEnds(line, withCount) ==
    IF withCount THEN CountStarts(line) ELSE KeyStarts(line, "N")

MarkerLens(line, ends) ==
    {a \in 1..LeadingNonSpaces(line) : \E j \in ends : j > a}

NotebookLineMatches(line, withCount) ==
    MarkerLens(line, NameEnds(line, withCount)) # {}

\* \S+ is greedy, then the optional blanks, then the name is greedy
NameFrom(line, ends, a) ==
    LStrip(SubSeq(line, a + 1, Max({j \in ends : j > a}) - 1))

NameAmong(line, ends) == NameFrom(line, ends, Max(MarkerLens(line, ends)))

NotebookLineName(line, withCount) == NameAmong(line, NameEnds(line, withCount))


\* ---------------------------------------------------- the remote service --
\* The objects of the service at start-up.
NotebookGuids == <<"X", "Y">>
TagGuids == <<"T">>
NoteGuids == <<"p">>
DefaultNotebook == "X"

InitNotebookName == [g \in {"X", "Y"} |-> IF g = "X" THEN <<"a">> ELSE <<"B">>]
TagName == [g \in {"T"} |-> <<"t">>]
NoteTags == [g \in {"p"} |-> {"T"}]
InitNote == [g \in {"p"} |-> [title |-> <<"u">>, notebookGuid |-> "X"]]

\* texts the user types in place of a note title or a notebook name
TitleTexts == {<<" ", "w">>, <<"u">>}
NameTexts == {<<"c", " ">>}

Range(f) == {f[i] : i \in DOMAIN f}

\* ------------------------------------------------------------ the state --
VARIABLES
    nodes,            \* every node object created so far, by identity
    registry,         \* registry: key -> node
    instanceMap,      \* instanceMap: guid -> instance number
    notebooks,        \* Explorer.notebooks
    tags,             \* Explorer.tags
    searchResults,    \* Explorer.searchResults
    modifiedNodes,    \* Explorer.modifiedNodes
    selectedNode,     \* Explorer.selectedNode (None is 0)
    expandState,      \* Explorer.expandState: key -> expanded
    hidden,           \* Explorer.hidden
    buffer,           \* Explorer.buffer: is it set, its lines, vim's &modified
    remoteNotes,      \* the service's notes: guid -> title, notebookGuid
    remoteNotebooks,  \* the service's notebooks: guid -> name
    config,           \* g:GeeknoteNotebooks and g:GeeknoteNotebookFilters
    calls,            \* the remote write calls issued by the last operation
    issued,           \* history: how often registerNode has given each key
    count             \* how often the bounded operations may still be used

vars == <<nodes, registry, instanceMap, notebooks, tags, searchResults,
          modifiedNodes, selectedNode, expandState, hidden, buffer,
          remoteNotes, remoteNotebooks, config, calls, issued, count>>

None == 0
Undefined == <<"undefined">>
EmptyMap == [k \in {} |-> 0]

\* The part of the state the methods of explorer.py work on, as one record;
\* ok turns FALSE when a statement raises, and the rest of the call is skipped.
Cur ==
    [nodes |-> nodes, registry |-> registry, instanceMap |-> instanceMap,
     notebooks |-> notebooks, tags |-> tags, searchResults |-> searchResults,
     modifiedNodes |-> modifiedNodes, selectedNode |-> selectedNode,
     expandState |-> expandState, remoteNotes |-> remoteNotes,
     remoteNotebooks |-> remoteNotebooks, calls |-> <<>>, issued |-> issued,
     ok |-> TRUE]

Raise(s) == [s EXCEPT !.ok = FALSE]

Put(f, k, v) == [x \in DOMAIN f \cup {k} |-> IF x = k THEN v ELSE f[x]]

\* -------------------------------------------------------- conn (service) --
\* GeeknoteGetNotes('notebook:"<name>"'): the notes of the notebook of that name
GeeknoteGetNotesOfNotebook(s, name) ==
    SelectSeq(NoteGuids,
        LAMBDA g : s.remoteNotebooks[s.remoteNotes[g].notebookGuid].name = name)

\* GeeknoteGetNotes('tag:"<name>"'): the notes that carry the tag of that name
GeeknoteGetNotesOfTag(s, name) ==
    SelectSeq(NoteGuids, LAMBDA g : \E t \in NoteTags[g] : TagName[t] = name)

\* GeeknoteUpdateNote(note): the service stores the note object it is handed
GeeknoteUpdateNote(s, guid, note) == [s EXCEPT !.remoteNotes = Put(@, guid, note)]

\* GeeknoteUpdateNotebook(notebook)
GeeknoteUpdateNotebook(s, guid, notebook) ==
    [s EXCEPT !.remoteNotebooks = Put(@, guid, notebook)]

\* GeeknoteRefreshNoteMeta(note): the note as the service holds it now
GeeknoteRefreshNoteMeta(s, guid) == s.remoteNotes[guid]

\* ------------------------------------------------------------- registry --
MakeKey(guid, instance) == <<guid, "(">> \o Str(instance) \o <<")">>

registerNode(s, id) ==
    LET guid == s.nodes[id].guid
        instance == IF guid \notin DOMAIN s.instanceMap THEN 0
                    ELSE s.instanceMap[guid] + 1
        key == MakeKey(guid, instance)
    IN  [s EXCEPT !.instanceMap = Put(@, guid, instance),
                  !.nodes[id].key = key,
                  !.registry = Put(@, key, id),
                  !.issued = Put(@, key, IF key \in DOMAIN @ THEN @[key] + 1
                                         ELSE 1)]

\* a deleteNodes that forgets the instance numbers too
deleteNodesAndInstances(s) ==
    [s EXCEPT !.registry = EmptyMap, !.instanceMap = EmptyMap]

deleteNodes(s) == [s EXCEPT !.registry = EmptyMap]

getNode(s, key) == IF key \in DOMAIN s.registry THEN s.registry[key] ELSE None

getNodeByInstance(s, guid, instance) == getNode(s, MakeKey(guid, instance))

\* ---------------------------------------------------------------- nodes --
\* Node.__init__ and the constructors of its subclasses.  obj is the service
\* object the node holds (notebook, note or tag); row and prefWidth, which
\* only place the cursor and size the window, are left out.
NewNode(kind, guid, indent, obj) ==
    [kind |-> kind, guid |-> guid, key |-> <<>>, parent |-> None,
     children |-> <<>>, expanded |-> FALSE, loaded |-> FALSE,
     indent |-> indent, obj |-> obj,
     name |-> IF kind = "note" THEN <<>> ELSE obj.name,
     title |-> IF kind = "note" THEN obj.title ELSE <<>>,
     notebookGuid |-> IF kind = "note" THEN obj.notebookGuid ELSE ""]

NotebookNode(guid, notebook) == NewNode("notebook", guid, 0, notebook)
NoteNode(guid, note, indent) == NewNode("note", guid, indent, note)
TagNode(guid, tag) == NewNode("tag", guid, 0, tag)

\* allocate a node object; its identity is its position in nodes
Alloc(s, node) == [s EXCEPT !.nodes = Append(@, node)]
Newest(s) == Len(s.nodes)

addChild(s, id, child) ==
    [s EXCEPT !.nodes[child].parent = id,
              !.nodes[id].children = Append(@, child)]

\* list.remove takes out the first occurrence
removeChild(s, id, child) ==
    LET children == s.nodes[id].children
        at == {i \in 1..Len(children) : children[i] = child}
    IN  IF at = {} THEN s
        ELSE [s EXCEPT !.nodes[id].children =
                 SubSeq(children, 1, Min(at) - 1) \o
                 SubSeq(children, Min(at) + 1, Len(children))]

\* NotebookNode.addNote and TagNode.addNote
Node_addNote(s, id, guid, note) ==
    LET s1 == Alloc(s, NoteNode(guid, note, s.nodes[id].indent + 1))
        s2 == registerNode(s1, Newest(s1))
    IN  addChild(s2, id, Newest(s1))

RECURSIVE AddNotes(_, _, _)
AddNotes(s, id, guids) ==
    IF guids = <<>> THEN s
    ELSE AddNotes(Node_addNote(s, id, Head(guids), s.remoteNotes[Head(guids)]),
                  id, Tail(guids))

\* list.sort(key=...): a stable insertion sort; key maps an element to the
\* string it is compared by
RECURSIVE InsertSorted(_, _, _)
InsertSorted(seq, x, key) ==
    IF seq = <<>> THEN <<x>>
    ELSE IF StrLess(key[x], key[Head(seq)]) THEN <<x>> \o seq
    ELSE <<Head(seq)>> \o InsertSorted(Tail(seq), x, key)

RECURSIVE SortedBy(_, _)
SortedBy(seq, key) ==
    IF seq = <<>> THEN <<>>
    ELSE InsertSorted(SortedBy(SubSeq(seq, 1, Len(seq) - 1), key),
                      seq[Len(seq)], key)

NotebookNode_expand(s, id) ==
    LET n == s.nodes[id]
        s1 == IF n.loaded THEN s
              ELSE LET c == [s EXCEPT !.nodes[id].children = <<>>]
                       l == AddNotes(c, id,
                                GeeknoteGetNotesOfNotebook(c, n.obj.name))
                   IN  [l EXCEPT !.nodes[id].loaded = TRUE]
    IN  [s1 EXCEPT !.nodes[id].expanded = TRUE]

TagNode_expand(s, id) ==
    LET n == s.nodes[id]
        notes == SortedBy(GeeknoteGetNotesOfTag(s, n.obj.name),
                    [g \in DOMAIN s.remoteNotes |-> s.remoteNotes[g].title])
        s1 == IF n.loaded THEN s
              ELSE [AddNotes(s, id, notes) EXCEPT !.nodes[id].loaded = TRUE]
    IN  [s1 EXCEPT !.nodes[id].expanded = TRUE]

\* expand and close.  The expanded flag of a note node, which activate
\* toggles and nothing reads, is left out.
Node_expand(s, id) ==
    CASE s.nodes[id].kind = "notebook" -> NotebookNode_expand(s, id)
      [] s.nodes[id].kind = "tag" -> TagNode_expand(s, id)
      [] OTHER -> s

Node_close(s, id) ==
    IF s.nodes[id].kind = "note" THEN s
    ELSE [s EXCEPT !.nodes[id].expanded = FALSE]

Node_toggle(s, id) ==
    IF s.nodes[id].expanded THEN Node_close(s, id) ELSE Node_expand(s, id)

\* Node.activate; NoteNode.activate also opens the note (GeeknoteOpenNote, a
\* read of the service)
Node_activate(s, id) == Node_toggle(s, id)

\* ------------------------------------------------------------ rendering --
\* NotebookNode.render and TagNode.render: the node's own line
BranchLine(n, tag) ==
    LET numNotes == Len(n.children)
        mark == IF n.expanded THEN ExplorerCharOpened
                ELSE IF n.loaded /\ numNotes = 0 THEN ExplorerCharOpened
                ELSE ExplorerCharClosed
        line == <<mark, " ">> \o n.name \o
                (IF numNotes # 0 THEN <<" ", "(">> \o Str(numNotes) \o <<")">>
                 ELSE <<>>)
    IN  PadTo(line, ByteLen(line), NotebookPad) \o <<" ", tag, "[">> \o n.key
        \o <<"]">>

\* NoteNode.render
NoteLine(n) ==
    LET line == Spaces(n.indent * IndentWidth) \o n.title
    IN  PadTo(line, CharLen(line), NotePad) \o <<" ", "n", "[">> \o n.key
        \o <<"]">>

Node_render(s, id) ==
    LET n == s.nodes[id]
    IN  IF n.kind = "note" THEN <<NoteLine(n)>>
        ELSE <<BranchLine(n, IF n.kind = "notebook" THEN "N" ELSE "T")>> \o
             (IF n.expanded
              THEN [i \in 1..Len(n.children) |-> NoteLine(s.nodes[n.children[i]])]
              ELSE <<>>)

RECURSIVE RenderAll(_, _)
RenderAll(s, ids) ==
    IF ids = <<>> THEN <<>>
    ELSE Node_render(s, Head(ids)) \o RenderAll(s, Tail(ids))

Rule == <<"====">>

\* the content Explorer.render writes; the buffer keeps one empty last line
Content(s) ==
    << <<"Notebooks:">>, Rule>> \o RenderAll(s, s.notebooks) \o
    (IF Len(s.tags) > 0
     THEN << <<>>, <<"Tags:">>, Rule>> \o RenderAll(s, s.tags) ELSE <<>>) \o
    (IF Len(s.searchResults) > 0
     THEN << <<>>, <<"Search Results:">>, Rule>> \o RenderAll(s, s.searchResults)
     ELSE <<>>) \o
    << <<>> >>

\* ---------------------------------------------------------------- adapt --
\* NotebookNode.adapt, NoteNode.adapt and Node.adapt: the node after the call,
\* and the value returned
NotebookNode_adaptName(n, line) ==
    LET withCount == Len(n.children) > 0
    IN  IF NotebookLineMatches(line, withCount)
        THEN Strip(NotebookLineName(line, withCount))
        ELSE n.name

NoteNode_adaptTitle(n, line) ==
    IF NoteLineMatches(line) THEN Strip(NoteLineTitle(line)) ELSE n.title

Node_adapt(s, id, line) ==
    LET n == s.nodes[id]
    IN  CASE n.kind = "notebook" ->
               [s EXCEPT !.nodes[id].name = NotebookNode_adaptName(n, line)]
          [] n.kind = "note" ->
               [s EXCEPT !.nodes[id].title = NoteNode_adaptTitle(n, line)]
          [] OTHER -> s

Node_adaptReturns(s, id, line) ==
    LET n == s.nodes[id]
    IN  CASE n.kind = "notebook" -> NotebookNode_adaptName(n, line) # n.name
          [] n.kind = "note" -> NoteNode_adaptTitle(n, line) # n.title
          [] OTHER -> FALSE

\* ------------------------------------------------------------- Explorer --
IsKind(s, id, kind) == id # None /\ s.nodes[id].kind = kind

\* Explorer.getNodeParent; rows count from 1 here, from 0 in the code
RECURSIVE ParentAbove(_, _, _)
ParentAbove(s, lines, row) ==
    IF row <= 1 THEN None
    ELSE LET key == getNodeKey(lines[row])
         IN  IF key # NoKey /\ ~IsKind(s, getNode(s, key), "note")
             THEN getNode(s, key)
             ELSE ParentAbove(s, lines, row - 1)

getNodeParent(s, lines, row) ==
    IF ~IsKind(s, getNode(s, getNodeKey(lines[row])), "note") THEN None
    ELSE ParentAbove(s, lines, row)

MarkModified(s, id) ==
    IF \E i \in 1..Len(s.modifiedNodes) : s.modifiedNodes[i] = id THEN s
    ELSE [s EXCEPT !.modifiedNodes = Append(@, id)]

\* Node.removeChild, called on the parent the node has
removeFromParent(s, id) == removeChild(s, s.nodes[id].parent, id)

\* the body of the loop of Explorer.applyChanges for one row, from the test
\* node.parent != parent on: the note is moved to the parent its row has
moveNote(s, id, parent, modified) ==
    IF s.nodes[id].parent = parent
    THEN IF modified THEN MarkModified(s, id) ELSE s
    ELSE IF ~IsKind(s, parent, "notebook") THEN Raise(s)
    ELSE MarkModified(
             addChild(
                 removeFromParent(
                     Node_expand([s EXCEPT !.nodes[id].notebookGuid =
                                              s.nodes[parent].guid],
                                 parent),
                     id),
                 parent, id),
             id)

\* the same body from the test for a note of a notebook on, node.adapt(line)
\* having returned modified
applyAdapted(s, lines, row, id, modified) ==
    IF IsKind(s, id, "note") /\ IsKind(s, s.nodes[id].parent, "notebook")
    THEN moveNote(s, id, getNodeParent(s, lines, row), modified)
    ELSE IF modified THEN MarkModified(s, id) ELSE s

\* the body of the loop of Explorer.applyChanges for one row
applyRow(s, lines, row) ==
    LET key == getNodeKey(lines[row])
        id == getNode(s, key)
    IN  IF key = NoKey THEN s
        ELSE IF id = None THEN Raise(s)
        ELSE applyAdapted(Node_adapt(s, id, lines[row]), lines, row, id,
                          Node_adaptReturns(s, id, lines[row]))

RECURSIVE applyRows(_, _, _)
applyRows(s, lines, row) ==
    IF row > Len(lines) \/ ~s.ok THEN s
    ELSE applyRows(applyRow(s, lines, row), lines, row + 1)

applyChanges(s, lines) == applyRows(s, lines, 1)

\* a remote write call of the given name is issued for the object guid
Called(s, name, guid) ==
    [s EXCEPT !.calls = Append(@, [call |-> name, guid |-> guid])]

\* the calls GeeknoteUpdateNotebook(self.notebook) and
\* GeeknoteUpdateNote(self.note) of a node
SendNotebook(s, id) ==
    GeeknoteUpdateNotebook(
        Called(s, "GeeknoteUpdateNotebook", s.nodes[id].guid),
        s.nodes[id].guid, s.nodes[id].obj)

SendNote(s, id) ==
    GeeknoteUpdateNote(
        Called(s, "GeeknoteUpdateNote", s.nodes[id].guid),
        s.nodes[id].guid, s.nodes[id].obj)

\* NotebookNode.commitChanges
NotebookNode_commitChanges(s, id) ==
    SendNotebook([s EXCEPT !.nodes[id].obj.name = s.nodes[id].name], id)

\* NoteNode.commitChanges: the test of the title with its update, then the
\* test of the notebook with its update
NoteNode_commitTitle(s, id) ==
    IF s.nodes[id].obj.title = s.nodes[id].title THEN s
    ELSE SendNote([s EXCEPT !.nodes[id].obj.title = s.nodes[id].title], id)

NoteNode_commitNotebook(s, id) ==
    IF s.nodes[id].obj.notebookGuid = s.nodes[id].notebookGuid THEN s
    ELSE SendNote([s EXCEPT !.nodes[id].obj.notebookGuid =
                               s.nodes[id].notebookGuid], id)

NoteNode_commitChanges(s, id) ==
    NoteNode_commitNotebook(NoteNode_commitTitle(s, id), id)

\* Node.commitChanges, which a tag node inherits, does nothing
Node_commitChanges(s, id) ==
    CASE s.nodes[id].kind = "notebook" -> NotebookNode_commitChanges(s, id)
      [] s.nodes[id].kind = "note" -> NoteNode_commitChanges(s, id)
      [] OTHER -> s

RECURSIVE CommitAll(_, _)
CommitAll(s, ids) ==
    IF ids = <<>> THEN s
    ELSE CommitAll(Node_commitChanges(s, Head(ids)), Tail(ids))

\* a refresh that takes the title and the notebook from the note object the
\* node holds already, without reading the service
Node_refreshHeld(s, id) ==
    IF s.nodes[id].kind # "note" THEN s
    ELSE [s EXCEPT !.nodes[id].notebookGuid = s.nodes[id].obj.notebookGuid,
                   !.nodes[id].title = s.nodes[id].obj.title]

\* NoteNode.refresh of a node that was constructed before; Node.refresh
Node_refresh(s, id) ==
    IF s.nodes[id].kind # "note" THEN s
    ELSE LET note == GeeknoteRefreshNoteMeta(s, s.nodes[id].guid)
         IN  [s EXCEPT !.nodes[id].obj = note,
                       !.nodes[id].notebookGuid = note.notebookGuid,
                       !.nodes[id].title = note.title]

\* the second loop of Explorer.commitChanges: the registered nodes of the
\* committed objects, other than the committed nodes themselves, are refreshed
\* (a refresh reads the service and changes its own node only, so the order
\* of the loop does not matter)
Siblings(s) ==
    {t \in Range(s.registry) :
        \E i \in 1..Len(s.modifiedNodes) :
            /\ s.nodes[t].guid = s.nodes[s.modifiedNodes[i]].guid
            /\ s.nodes[t].key # s.nodes[s.modifiedNodes[i]].key}

RECURSIVE RefreshAll(_, _)
RefreshAll(s, ids) ==
    IF ids = {} THEN s
    ELSE LET id == CHOOSE x \in ids : TRUE
         IN  RefreshAll(Node_refresh(s, id), ids \ {id})

\* Explorer.commitChanges on a buffer that is set: the two loops over
\* modifiedNodes and the clearing of the list, then the whole method
commitModified(s) ==
    IF ~s.ok THEN s ELSE [RefreshAll(s, Siblings(s)) EXCEPT !.modifiedNodes = <<>>]

commitNodes(s) == IF ~s.ok THEN s ELSE commitModified(CommitAll(s, s.modifiedNodes))

commitChanges(s, buf) ==
    commitNodes(IF buf.modified THEN applyChanges(s, buf.lines) ELSE s)

\* notebook.name or tag.name of the object a notebook or tag node holds
ObjName(n) == IF n.kind = "note" THEN <<>> ELSE n.obj.name

selectNode(s, id) == [s EXCEPT !.selectedNode = id]

selectNotebook(s, guid) ==
    LET id == getNodeByInstance(s, guid, 0)
    IN  IF id # None THEN selectNode(s, id) ELSE s

\* Explorer.addNote
selectNewest(s) == selectNode(s, Newest(s))

addNote(s, guid, note) ==
    LET notebook == getNodeByInstance(s, note.notebookGuid, 0)
    IN  IF notebook = None THEN Raise(s)
        ELSE selectNewest(
                 Node_addNote(Node_expand(s, notebook), notebook, guid, note))

\* Explorer.addNotebook
addNotebook(s, guid, notebook) ==
    LET s1 == Alloc(s, NotebookNode(guid, notebook))
        id == Newest(s1)
        s2 == [s1 EXCEPT !.notebooks =
                  SortedBy(Append(@, id),
                      [i \in 1..Len(s1.nodes) |-> Lower(ObjName(s1.nodes[i]))])]
    IN  selectNode(registerNode(s2, id), id)

\* Explorer.addTag
addTag(s, guid, tag) ==
    LET s1 == Alloc(s, TagNode(guid, tag))
        id == Newest(s1)
        s2 == [s1 EXCEPT !.tags =
                  SortedBy(Append(@, id),
                      [i \in 1..Len(s1.nodes) |-> Lower(ObjName(s1.nodes[i]))])]
    IN  registerNode(s2, id)

\* Explorer.addSearchResults
RECURSIVE addSearchResults(_, _)
addSearchResults(s, results) ==
    IF results = <<>> THEN s
    ELSE LET g == Head(results)
             s1 == Alloc(s, NoteNode(g, s.remoteNotes[g], 0))
             s2 == registerNode(s1, Newest(s1))
         IN  addSearchResults(
                 [s2 EXCEPT !.searchResults = Append(@, Newest(s1))],
                 Tail(results))

clearSearchResults(s) == [s EXCEPT !.searchResults = <<>>]

\* --------------------------------------------------------------- refresh --
\* re.compile(filter) succeeds: the filters of the model are literal texts,
\* but for "(", which opens a group that nothing closes
Compiles(filter) == \A i \in 1..Len(filter) : filter[i] # "("

\* r.search(name) for a literal pattern
Search(filter, name) == \E i \in 1..(Len(name) + 1) : HasAt(name, i, filter)

\* GeeknoteGetNotebook(guid): the notebook, or None for a guid the service
\* does not know
KnownNotebook(s, guid) == guid \in DOMAIN s.remoteNotebooks

RECURSIVE addNotebooks(_, _)
addNotebooks(s, guids) ==
    IF guids = <<>> THEN s
    ELSE addNotebooks(
             IF KnownNotebook(s, Head(guids))
             THEN addNotebook(s, Head(guids), s.remoteNotebooks[Head(guids)])
             ELSE s,
             Tail(guids))

\* Explorer.refreshNotebooks: the guids it hands to addNotebook, in order
SelectedNotebooks(s, cfg) ==
    IF cfg.notebooks # Undefined THEN cfg.notebooks
    ELSE IF cfg.filters = Undefined THEN NotebookGuids
    ELSE LET regex == SelectSeq(cfg.filters, Compiles)
             Matches(g) == \E i \in 1..Len(regex) :
                               Search(regex[i], s.remoteNotebooks[g].name)
         IN  SelectSeq(NotebookGuids, Matches)

refreshNotebooks(s, cfg) == addNotebooks(s, SelectedNotebooks(s, cfg))

RECURSIVE addTags(_, _)
addTags(s, guids) ==
    IF guids = <<>> THEN s
    ELSE addTags(addTag(s, Head(guids), [name |-> TagName[Head(guids)]]),
                 Tail(guids))

\* Explorer.saveExpandState
saveExpandState(s) ==
    LET ids == s.notebooks \o s.tags
        Last(k) == Max({i \in 1..Len(ids) : s.nodes[ids[i]].key = k})
        keys == {s.nodes[ids[i]].key : i \in 1..Len(ids)}
    IN  [s EXCEPT !.expandState =
            [k \in DOMAIN @ \cup keys |->
                IF k \in keys THEN s.nodes[ids[Last(k)]].expanded ELSE @[k]]]

\* Explorer.restoreExpandState, the keys taken in the order of the dictionary
RECURSIVE restoreKeys(_, _)
restoreKeys(s, keys) ==
    IF keys = {} THEN s
    ELSE LET k == CHOOSE x \in keys : TRUE
             id == getNode(s, k)
             s1 == IF id = None THEN s
                   ELSE IF s.expandState[k] THEN Node_expand(s, id)
                   ELSE Node_close(s, id)
         IN  restoreKeys(s1, keys \ {k})

restoreExpandState(s) == restoreKeys(s, DOMAIN s.expandState)

\* Explorer.refresh (noteCounts, which nothing reads, is left out)
selectDefault(s) ==
    IF s.selectedNode = None THEN selectNotebook(s, DefaultNotebook) ELSE s

refreshTags(s) == addTags([s EXCEPT !.tags = <<>>], TagGuids)

refresh(s, cfg) ==
    selectDefault(
        restoreExpandState(
            refreshTags(
                refreshNotebooks(
                    [deleteNodes(saveExpandState(s)) EXCEPT !.notebooks = <<>>],
                    cfg))))

\* Explorer.render on a buffer that is set: the state and the buffer after it
rendered(s, buf) ==
    [s |-> s,
     buf |-> IF s.ok THEN [buf EXCEPT !.lines = Content(s), !.modified = FALSE]
             ELSE buf]

\* a render that commits the user's changes where it should only keep them
renderCommitting(s, buf) == rendered(commitChanges(s, buf), buf)

render(s, buf) ==
    rendered(IF buf.modified THEN applyChanges(s, buf.lines) ELSE s, buf)

\* ------------------------------------------------------ object lifetime --
\* Python frees an object once nothing refers to it.  The nodes that can still
\* be reached are those in the registry and in the Explorer's lists and fields,
\* and their parents and children.
RECURSIVE Reachable(_, _)
Reachable(s, S) ==
    LET more == S \cup {s.nodes[i].parent : i \in S}
                  \cup UNION {Range(s.nodes[i].children) : i \in S}
        T == more \ {None}
    IN  IF T = S THEN S ELSE Reachable(s, T)

Alive(s) ==
    Reachable(s, (Range(s.registry) \cup Range(s.notebooks) \cup Range(s.tags)
                  \cup Range(s.searchResults) \cup Range(s.modifiedNodes)
                  \cup {s.selectedNode}) \ {None})

\* the state with the nodes outside live dropped; the nodes keep their order
Compact(s, live) ==
    LET to(i) == IF i = None THEN None ELSE Cardinality({x \in live : x <= i})
        from(j) == CHOOSE i \in live : to(i) = j
        map(seq) == [k \in 1..Len(seq) |-> to(seq[k])]
    IN  IF live = 1..Len(s.nodes) THEN s
        ELSE [s EXCEPT
                !.nodes = [j \in 1..Cardinality(live) |->
                              [s.nodes[from(j)] EXCEPT !.parent = to(@),
                                                       !.children = map(@)]],
                !.registry = [k \in DOMAIN @ |-> to(@[k])],
                !.notebooks = map(@),
                !.tags = map(@),
                !.searchResults = map(@),
                !.modifiedNodes = map(@),
                !.selectedNode = to(@)]

Collect(s) == Compact(s, Alive(s))

\* ------------------------------------------------------- initial state --
NoConfig == [notebooks |-> Undefined, filters |-> Undefined]

\* Explorer.__init__: the fields, then refresh()
Constructed(cfg) ==
    refresh([nodes |-> <<>>, registry |-> EmptyMap, instanceMap |-> EmptyMap,
             notebooks |-> <<>>, tags |-> <<>>, searchResults |-> <<>>,
             modifiedNodes |-> <<>>, selectedNode |-> None,
             expandState |-> EmptyMap, remoteNotes |-> InitNote,
             remoteNotebooks |->
                 [g \in DOMAIN InitNotebookName |-> [name |-> InitNotebookName[g]]],
             calls |-> <<>>, issued |-> EmptyMap, ok |-> TRUE],
            cfg)

NoBuffer == [exists |-> FALSE, lines |-> <<>>, modified |-> FALSE]

InitWith(cfg) ==
    \E s \in {Constructed(cfg)} :
        /\ config = cfg
        /\ nodes = s.nodes
        /\ registry = s.registry
        /\ instanceMap = s.instanceMap
        /\ notebooks = s.notebooks
        /\ tags = s.tags
        /\ searchResults = s.searchResults
        /\ modifiedNodes = s.modifiedNodes
        /\ selectedNode = s.selectedNode
        /\ expandState = s.expandState
        /\ remoteNotes = s.remoteNotes
        /\ remoteNotebooks = s.remoteNotebooks
        /\ calls = <<>>
        /\ issued = s.issued
        /\ hidden = TRUE
        /\ buffer = NoBuffer

\* the budget: ops calls in all, and of each kind as many as given
Budget(ops, nRefresh, nSearch, nAddNote, nEdits, nActivate) ==
    [ops |-> ops, refresh |-> nRefresh, search |-> nSearch,
     addNote |-> nAddNote, edits |-> nEdits, activate |-> nActivate]

May(kind) == count.ops > 0 /\ count[kind] > 0

Uses(kind) == count' = [count EXCEPT !.ops = @ - 1, ![kind] = @ - 1]

Init ==
    /\ InitWith(NoConfig)
    /\ count = Budget(MaxOps, MaxEach, MaxEach, MaxEach, MaxEach, MaxEach)

\* --------------------------------------------------------------- actions --
\* the state after an operation that ran as r says, the node objects that
\* nothing refers to any more freed
Becomes(r) ==
    \E s \in {Collect(r)} :
        /\ nodes' = s.nodes
        /\ registry' = s.registry
        /\ instanceMap' = s.instanceMap
        /\ notebooks' = s.notebooks
        /\ tags' = s.tags
        /\ searchResults' = s.searchResults
        /\ modifiedNodes' = s.modifiedNodes
        /\ selectedNode' = s.selectedNode
        /\ expandState' = s.expandState
        /\ remoteNotes' = s.remoteNotes
        /\ remoteNotebooks' = s.remoteNotebooks
        /\ calls' = s.calls
        /\ issued' = s.issued

\* Explorer.show: the buffer is set, the view is rendered, then hidden is
\* cleared (a render that raises leaves hidden as it was)
Show ==
    \E r \in {render(Cur, [buffer EXCEPT !.exists = TRUE])} :
        /\ Becomes(r.s)
        /\ buffer' = r.buf
        /\ hidden' = IF r.s.ok THEN FALSE ELSE hidden
        /\ UNCHANGED <<config, count>>

\* Explorer.hide: bunload raises when there is no buffer, or when the buffer
\* holds unwritten changes
Hide ==
    LET fails == ~buffer.exists \/ buffer.modified
    IN  /\ Becomes(IF fails THEN Raise(Cur) ELSE Cur)
        /\ hidden' = IF fails THEN hidden ELSE TRUE
        /\ UNCHANGED <<buffer, config, count>>

\* Explorer.render
Render ==
    \E r \in {IF buffer.exists THEN render(Cur, buffer)
              ELSE [s |-> Cur, buf |-> buffer]} :
        /\ Becomes(r.s)
        /\ buffer' = r.buf
        /\ UNCHANGED <<hidden, config, count>>

\* Explorer.activateNode(line), for a line of the window that carries a key
ActivateNode(row) ==
    /\ May("activate")
    /\ buffer.exists /\ ~hidden
    /\ getNodeKey(buffer.lines[row]) # NoKey
    /\ \E id \in {getNode(Cur, getNodeKey(buffer.lines[row]))} :
         \E r \in {IF id = None THEN [s |-> Raise(Cur), buf |-> buffer]
                   ELSE render(Node_activate(Cur, id), buffer)} :
             /\ Becomes(r.s)
             /\ buffer' = r.buf
    /\ Uses("activate")
    /\ UNCHANGED <<hidden, config>>

\* Explorer.commitChanges, called when the user saves the buffer (BufWritePre);
\* the write that follows clears vim's &modified
CommitChanges ==
    /\ Becomes(IF buffer.exists THEN commitChanges(Cur, buffer) ELSE Raise(Cur))
    /\ buffer' = [buffer EXCEPT !.modified = FALSE]
    /\ UNCHANGED <<hidden, config, count>>

\* Explorer.applyChanges
ApplyChanges ==
    /\ Becomes(IF buffer.exists THEN applyChanges(Cur, buffer.lines)
               ELSE Raise(Cur))
    /\ UNCHANGED <<hidden, buffer, config, count>>

\* Explorer.refresh
Refresh ==
    /\ May("refresh")
    /\ Becomes(refresh(Cur, config))
    /\ Uses("refresh")
    /\ UNCHANGED <<hidden, buffer, config>>

\* Explorer.addSearchResults(results)
AddSearchResults(results) ==
    /\ May("search")
    /\ Becomes(addSearchResults(Cur, results))
    /\ Uses("search")
    /\ UNCHANGED <<hidden, buffer, config>>

\* Explorer.clearSearchResults
ClearSearchResults ==
    /\ searchResults # <<>>
    /\ Becomes(clearSearchResults(Cur))
    /\ UNCHANGED <<hidden, buffer, config, count>>

\* Explorer.addNote(note), for a note of the service
AddNote(guid) ==
    /\ May("addNote")
    /\ Becomes(addNote(Cur, guid, remoteNotes[guid]))
    /\ Uses("addNote")
    /\ UNCHANGED <<hidden, buffer, config>>

\* ---------------------------------------------------- the user's edits --
\* the nodes whose rendered line is the given line
LineOf(n) == IF n.kind = "note" THEN NoteLine(n)
             ELSE BranchLine(n, IF n.kind = "notebook" THEN "N" ELSE "T")

ShownAs(line) ==
    LET key == getNodeKey(line)
    IN  {id \in 1..Len(nodes) : nodes[id].key = key /\ line = LineOf(nodes[id])}

Replace(line, from, len, text) ==
    SubSeq(line, 1, from - 1) \o text \o SubSeq(line, from + len, Len(line))

CanEdit == buffer.exists /\ ~hidden /\ May("edits")

UserEdits(lines) ==
    /\ buffer' = [buffer EXCEPT !.lines = lines, !.modified = TRUE]
    /\ Uses("edits")
    /\ calls' = <<>>
    /\ UNCHANGED <<nodes, registry, instanceMap, notebooks, tags, searchResults,
                   modifiedNodes, selectedNode, expandState, hidden,
                   remoteNotes, remoteNotebooks, config, issued>>

\* the line of a note node with text typed over its title
Retitled(line, n, text) ==
    Replace(line, Len(Spaces(n.indent * IndentWidth)) + 1, Len(n.title), text)

\* the line of a notebook node with text typed over its name
Renamed(line, n, text) == Replace(line, 3, Len(n.name), text)

\* the user types a new title over the title of a note line
EditTitle ==
    /\ CanEdit
    /\ \E row \in 1..Len(buffer.lines) :
        \E id \in ShownAs(buffer.lines[row]) :
            /\ nodes[id].kind = "note"
            /\ \E text \in TitleTexts \ {nodes[id].title} :
                UserEdits([buffer.lines EXCEPT ![row] =
                              Retitled(@, nodes[id], text)])

\* the user types a new name over the name of a notebook line
EditName ==
    /\ CanEdit
    /\ \E row \in 1..Len(buffer.lines) :
        \E id \in ShownAs(buffer.lines[row]) :
            /\ nodes[id].kind = "notebook"
            /\ \E text \in NameTexts \ {nodes[id].name} :
                UserEdits([buffer.lines EXCEPT ![row] =
                              Renamed(@, nodes[id], text)])

IsNoteLine(line) == KeyStarts(line, "n") # {}
IsBranchLine(line) == KeyStarts(line, "N") # {} \/ KeyStarts(line, "T") # {}

\* the lines with the line at row moved to just below the line at dest
Moved(lines, row, dest) ==
    LET without == SubSeq(lines, 1, row - 1) \o SubSeq(lines, row + 1, Len(lines))
        d == IF dest > row THEN dest - 1 ELSE dest
    IN  SubSeq(without, 1, d) \o <<lines[row]>> \o
        SubSeq(without, d + 1, Len(without))

\* the user moves a note line to just below a notebook or tag line
MoveLine ==
    /\ CanEdit
    /\ LET lines == buffer.lines
           noteRows == {r \in 1..Len(lines) :
                           IsNoteLine(lines[r]) /\ ~IsBranchLine(lines[r])}
           branchRows == {r \in 1..Len(lines) :
                           IsBranchLine(lines[r]) /\ ~IsNoteLine(lines[r])}
       IN  \E row \in noteRows, dest \in branchRows :
               /\ dest # row - 1
               /\ UserEdits(Moved(lines, row, dest))

Next ==
    \/ Show
    \/ Hide
    \/ Render
    \/ CommitChanges
    \/ ApplyChanges
    \/ Refresh
    \/ ClearSearchResults
    \/ \E row \in 1..Len(buffer.lines) : ActivateNode(row)
    \/ \E results \in {<<"p">>} : AddSearchResults(results)
    \/ \E guid \in Range(NoteGuids) : AddNote(guid)
    \/ EditTitle
    \/ EditName
    \/ MoveLine

Spec == Init /\ [][Next]_vars

\* The operations that meet when search results outlive a refresh: a search,
\* a refresh, and an edit of a line of the window that the user saves.
InitStale ==
    /\ InitWith(NoConfig)
    /\ count = Budget(MaxStaleRefresh + MaxStaleSearch + MaxStaleActivate
                          + MaxStaleEdits,
                      MaxStaleRefresh, MaxStaleSearch, 0, MaxStaleEdits,
                      MaxStaleActivate)

NextStale ==
    \/ Show
    \/ Render
    \/ CommitChanges
    \/ Refresh
    \/ \E row \in 1..Len(buffer.lines) : ActivateNode(row)
    \/ \E results \in {<<"p">>} : AddSearchResults(results)
    \/ EditTitle
    \/ EditName

SpecStale == InitStale /\ [][NextStale]_vars

\* The settings of g:GeeknoteNotebooks and g:GeeknoteNotebookFilters: guid "Z"
\* is no notebook of the service, filter "(" does not compile, and the empty
\* filter matches every name.
NotebookSettings ==
    {Undefined, <<>>, <<"X">>, <<"X", "X">>, <<"Y", "X">>, <<"Z">>,
     <<"Z", "Y">>}

FilterSettings ==
    {Undefined, <<>>, << <<"a">> >>, << <<"(">> >>, << <<"(">>, <<"B">> >>,
     << <<"a">>, <<"B">> >>, << <<"z">> >>, << <<>> >>}

InitNotebooks ==
    /\ \E n \in NotebookSettings, f \in FilterSettings :
           InitWith([notebooks |-> n, filters |-> f])
    /\ count = Budget(MaxConfigRefresh + MaxConfigActivate, MaxConfigRefresh,
                      0, 0, 0, MaxConfigActivate)

NextNotebooks ==
    \/ Show
    \/ Refresh
    \/ \E row \in 1..Len(buffer.lines) : ActivateNode(row)

SpecNotebooks == InitNotebooks /\ [][NextNotebooks]_vars

\* =============================================================== claims ==
\* the content of the window as render would write it now
Shown == Content(Cur)

\* the registered node that the key on a line stands for, or None
NodeOfLine(line) == getNode(Cur, getNodeKey(line))

\* the last operation issued the remote write call of that name for guid
Issued(log, name, guid) ==
    \E i \in 1..Len(log) : log[i] = [call |-> name, guid |-> guid]

\* The buffer holds the content of the window but for one row, the line of a
\* note node under a notebook or a tag, where text is typed over the title;
\* nothing else waits to be committed.
TitleTyped(row, text) ==
    /\ buffer.exists /\ buffer.modified /\ modifiedNodes = <<>>
    /\ row \in 1..Len(Shown)
    /\ \E id \in {NodeOfLine(Shown[row])} :
          /\ IsKind(Cur, id, "note")
          /\ nodes[id].parent # None
          /\ Shown[row] = NoteLine(nodes[id])
          /\ Strip(text) # nodes[id].title
          /\ buffer.lines = [Shown EXCEPT ![row] = Retitled(@, nodes[id], text)]

\* a remote note update was issued for the note of the row and the remote
\* title is the trimmed text, and modifiedNodes is empty
TitleStored(row, text) ==
    \E g \in {nodes[NodeOfLine(Shown[row])].guid} :
        /\ Issued(calls', "GeeknoteUpdateNote", g)
        /\ remoteNotes'[g].title = Strip(text)
        /\ modifiedNodes' = <<>>

\* C1: Note rename is synchronized: when the user has changed only the title
\* text on the line of a note node shown under a notebook or under a tag
\* (indentation and key kept) and commitChanges then runs, a remote note
\* update is issued, the remote note's title is the edited, trimmed text, and
\* modifiedNodes is empty afterwards.
NoteRenameSynchronized ==
    [][\A row \in 1..Len(buffer.lines) : \A text \in TitleTexts :
          (TitleTyped(row, text) /\ CommitChanges) => TitleStored(row, text)]_vars

\* The line at row is the line of a note node of a notebook, and it sits
\* under the line of another notebook.
LineMoved(row) ==
    /\ buffer.exists /\ buffer.modified
    /\ \E id \in {NodeOfLine(buffer.lines[row])} :
       \E to \in {getNodeParent(Cur, buffer.lines, row)} :
          /\ IsKind(Cur, id, "note")
          /\ IsKind(Cur, nodes[id].parent, "notebook")
          /\ IsKind(Cur, to, "notebook")
          /\ to # nodes[id].parent

\* the nodes of the next state that hold the node of key k as a child
ParentsNext(k) ==
    {j \in 1..Len(nodes') :
        \E c \in 1..Len(nodes'[j].children) :
            nodes'[j].children[c] = registry'[k]}

\* the remote note of the row is in the notebook its line sits under, and
\* the note node is a child of that notebook's node and of no other node
MoveStored(row) ==
    \E id \in {NodeOfLine(buffer.lines[row])} :
    \E to \in {getNodeParent(Cur, buffer.lines, row)} :
        /\ remoteNotes'[nodes[id].guid].notebookGuid = nodes[to].guid
        /\ nodes[id].key \in DOMAIN registry'
        /\ nodes[to].key \in DOMAIN registry'
        /\ nodes'[registry'[nodes[id].key]].parent = registry'[nodes[to].key]
        /\ ParentsNext(nodes[id].key) = {registry'[nodes[to].key]}

\* C2: Note reparenting is synchronized: when the user has moved the line of
\* a note of notebook X under the line of a different notebook Y, then after
\* commitChanges the remote note's notebookGuid is Y's guid and the note node
\* is a child of Y's node and of no other node, whatever other edits are
\* committed in the same commitChanges.
NoteMoveSynchronized ==
    [][\A row \in 1..Len(buffer.lines) :
          (LineMoved(row) /\ CommitChanges) => MoveStored(row)]_vars

\* The buffer holds the content of the window but for one row, the line of a
\* notebook node, where text is typed over the name.
NameTyped(row, text) ==
    /\ buffer.exists /\ buffer.modified /\ modifiedNodes = <<>>
    /\ row \in 1..Len(Shown)
    /\ \E id \in {NodeOfLine(Shown[row])} :
          /\ IsKind(Cur, id, "notebook")
          /\ Shown[row] = BranchLine(nodes[id], "N")
          /\ Strip(text) # nodes[id].name
          /\ buffer.lines = [Shown EXCEPT ![row] = Renamed(@, nodes[id], text)]

NameStored(row, text) ==
    \E g \in {nodes[NodeOfLine(Shown[row])].guid} :
        /\ Issued(calls', "GeeknoteUpdateNotebook", g)
        /\ remoteNotebooks'[g].name = Strip(text)

\* C3: Notebook rename is synchronized: when the user has changed only the
\* name text on a notebook line (marker, note count and key kept) and
\* commitChanges then runs, a remote notebook update is issued and the remote
\* notebook's name is the edited, trimmed text.
NotebookRenameSynchronized ==
    [][\A row \in 1..Len(buffer.lines) : \A text \in NameTexts :
          (NameTyped(row, text) /\ CommitChanges) => NameStored(row, text)]_vars

\* C4: Remote write calls (GeeknoteUpdateNote, GeeknoteUpdateNotebook) are
\* issued only inside commitChanges: every step in which a remote write call
\* is issued is a step of commitChanges, so render, applyChanges,
\* activateNode, refresh, show and hide never issue one.
WritesOnlyInCommit == [][calls' # <<>> => CommitChanges]_vars

\* a commitChanges has issued a remote write call
CommitHasWritten == calls # <<>>

\* the nodes of the window: those of the three lists, and their children
WindowNodes ==
    LET top == Range(notebooks) \cup Range(tags) \cup Range(searchResults)
    IN  top \cup UNION {Range(nodes[id].children) : id \in top}

\* C5: The registry contains an entry for all nodes contained in the
\* explorer window: every node in notebooks, tags and searchResults and every
\* child of those nodes is stored in the registry under its own key
\* (getNode(node.getKey()) is that node), also after refresh() while search
\* results are present.
RegistryHoldsWindow == \A id \in WindowNodes : getNode(Cur, nodes[id].key) = id

\* the number of registered nodes of the object guid
NodeCount(guid) ==
    Cardinality({k \in DOMAIN registry : nodes[registry[k]].guid = guid})

\* C6: instanceMap maps each object's guid to the maximum instance number of
\* any node representing the object, the object's node count minus one: for
\* every guid in instanceMap, instanceMap[guid] is the number of nodes with
\* that guid in the registry minus one.
InstanceIsCountMinusOne ==
    \A g \in DOMAIN instanceMap : instanceMap[g] = NodeCount(g) - 1

NotebookInstanceZero ==
    \A i \in 1..Len(notebooks) :
        getNodeByInstance(Cur, nodes[notebooks[i]].guid, 0) = notebooks[i]

\* C9: When the navigation buffer is hidden, the buffer exists: isHidden()
\* returning true implies that the explorer's buffer is set.
HiddenHasBuffer == hidden => buffer.exists

\* the guids of the notebooks list, in order
ListedGuids == [i \in 1..Len(notebooks) |-> nodes[notebooks[i]].guid]

\* the notebooks whose name matches at least one filter that compiles
Filtered ==
    {g \in DOMAIN remoteNotebooks :
        \E i \in 1..Len(config.filters) :
            /\ Compiles(config.filters[i])
            /\ Search(config.filters[i], remoteNotebooks[g].name)}

\* C10: Notebook selection on refresh: if g:GeeknoteNotebooks is defined the
\* notebooks list holds just the notebooks the service returns for those
\* guids (filters ignored, unknown guids skipped); otherwise, if
\* g:GeeknoteNotebookFilters is defined, exactly the notebooks whose name
\* matches at least one filter that compiles; otherwise all notebooks; and in
\* every case each notebook appears at most once in the list.
NotebooksSelected ==
    /\ Range(ListedGuids) =
          IF config.notebooks # Undefined
          THEN Range(config.notebooks) \cap DOMAIN remoteNotebooks
          ELSE IF config.filters # Undefined THEN Filtered
          ELSE DOMAIN remoteNotebooks
    /\ \A i, j \in 1..Len(notebooks) :
          i # j => ListedGuids[i] # ListedGuids[j]

\* The buffer holds the content of the window but for one row, the line of a
\* registered note node of the search results, where text is typed over the
\* title; nothing else waits to be committed.
ResultTitleTyped(row, text) ==
    /\ buffer.exists /\ buffer.modified /\ modifiedNodes = <<>>
    /\ row \in 1..Len(Shown)
    /\ \E id \in {NodeOfLine(Shown[row])} :
          /\ IsKind(Cur, id, "note")
          /\ id \in Range(searchResults)
          /\ Shown[row] = NoteLine(nodes[id])
          /\ Strip(text) # nodes[id].title
          /\ buffer.lines = [Shown EXCEPT ![row] = Retitled(@, nodes[id], text)]

\* the remote title of the note of the row is the trimmed text
ResultTitleStored(row, text) ==
    remoteNotes'[nodes[NodeOfLine(Shown[row])].guid].title = Strip(text)

\* C11: A note shown in the search-results section is synchronized like any
\* other note line: when the user has changed only the title text on a
\* search-result line (key kept) and commitChanges then runs, the remote
\* note's title is the edited text.
SearchResultSynchronized ==
    [][\A row \in 1..Len(buffer.lines) : \A text \in TitleTexts :
          (ResultTitleTyped(row, text) /\ CommitChanges)
              => ResultTitleStored(row, text)]_vars

\* the state Explorer.commitChanges has reached after its call of
\* applyChanges, when its two loops over modifiedNodes start
Applied == IF buffer.modified THEN applyChanges(Cur, buffer.lines) ELSE Cur

\* the notes that have a node in the modifiedNodes of state a
CommittedNotes(a) ==
    {a.nodes[a.modifiedNodes[i]].guid : i \in 1..Len(a.modifiedNodes)}
        \cap DOMAIN remoteNotes

\* the registered note nodes of the next state
RegisteredNotesNext ==
    {id \in {registry'[k] : k \in DOMAIN registry'} : nodes'[id].kind = "note"}

\* C12: Nodes of the same note converge on commit: after commitChanges has
\* returned (nothing was raised), for every note that had a node in
\* modifiedNodes, all registered note nodes of that note have the title and
\* the notebookGuid of the remote note, whichever of them the user edited and
\* in whatever order they were recorded.
NodesConverge ==
    [][(CommitChanges /\ buffer.exists) =>
          \E a \in {Applied} :
              a.ok => \A id \in RegisteredNotesNext :
                          nodes'[id].guid \in CommittedNotes(a) =>
                              /\ nodes'[id].title =
                                     remoteNotes'[nodes'[id].guid].title
                              /\ nodes'[id].notebookGuid =
                                     remoteNotes'[nodes'[id].guid].notebookGuid]_vars

\* a commitChanges has sent two updates of a note that has two registered
\* nodes, and the remote note is no longer as it was at the start
TwoNodesCommitted ==
    \E g \in DOMAIN remoteNotes :
        /\ Len(calls) >= 2
        /\ \A i \in 1..Len(calls) :
               calls[i] = [call |-> "GeeknoteUpdateNote", guid |-> g]
        /\ remoteNotes[g] # InitNote[g]
        /\ Cardinality({k \in DOMAIN registry :
                           nodes[registry[k]].guid = g}) >= 2

====
